---- MODULE Spec2Model ----
(***************************************************************************)
(* Model of src/main.py: the /rent endpoint of the Society Rent Aggregator.*)
(* One request is followed from FastAPI's validation of its query          *)
(* parameters, through the five site scrapers that asyncio.gather runs     *)
(* concurrently, to the sorted RentResponse.                               *)
(*                                                                         *)
(* Strings are sequences of one-character strings.  A Listing keeps the    *)
(* fields the endpoint computes with (site, bhk, price); title, link, area *)
(* and price_text are copied through unchanged by the code and carry no    *)
(* control flow, so they are left out of the records.                      *)
(***************************************************************************)
EXTENDS Integers, Sequences, FiniteSets, TLC

\* Python's None, for an Optional[int] / Optional[str] that is absent.
None == -1

\* ---- bounds of the model ----
\* Most listing cards the five result pages of one request hold together.
MaxListings == 2

\* ---- program constants ----
\* Query(..., min_length=2)
MinLength == 2
\* for c in cards[:8]
CardCap == 8
\* the tasks list of get_rent has five entries
NumSites == 5

\* Two more scrapers added to the tasks list.
SitesSeven == 1..(NumSites + 2)

\* The tasks of get_rent, in list order.
Sites == 1..NumSites

\* The "site" field each scraper writes into its items.
SiteName(s) ==
    CASE s = 1 -> "NoBroker"
      [] s = 2 -> "MagicBricks"
      [] s = 3 -> "99acres"
      [] s = 4 -> "Housing"
      [] s = 5 -> "Makaan"
      [] OTHER -> "Other"

\* ---- parse_price_int ----
Digits == <<"0", "1", "2", "3", "4", "5", "6", "7", "8", "9">>

IsDigit(c) == \E i \in 1..10 : Digits[i] = c

DigitVal(c) == (CHOOSE i \in 1..10 : Digits[i] = c) - 1

\* str.lower() on the characters the sample texts use.
LowerChar(c) ==
    CASE c = "K" -> "k"
      [] c = "R" -> "r"
      [] OTHER -> c

\* text.replace(",", "").lower()
Normalize(text) ==
    LET kept == SelectSeq(text, LAMBDA c : c # ",")
    IN  [i \in 1..Len(kept) |-> LowerChar(kept[i])]

\* int(m.group(1)) for a run of decimal digits.
RECURSIVE IntOf(_)
IntOf(ds) ==
    IF ds = <<>> THEN 0
    ELSE IntOf(SubSeq(ds, 1, Len(ds) - 1)) * 10 + DigitVal(ds[Len(ds)])

\* re.search(r"(\d+)(k)?", txt): the leftmost digit, the longest run of digits
\* from it, and a "k" right after the run.
parse_price_int(text) ==
    IF text = <<>> THEN None
    ELSE
      LET txt == Normalize(text)
          starts == {i \in 1..Len(txt) : IsDigit(txt[i])}
      IN  IF starts = {} THEN None
          ELSE
            LET b == CHOOSE i \in starts : \A j \in starts : i <= j
                e == CHOOSE j \in b..Len(txt) :
                        /\ \A m \in b..j : IsDigit(txt[m])
                        /\ (j = Len(txt) \/ ~IsDigit(txt[j + 1]))
                val == IntOf(SubSeq(txt, b, e))
            IN  IF e < Len(txt) /\ txt[e + 1] = "k" THEN val * 1000 ELSE val

\* ---- what a site can answer ----
\* The N of the first "<N> BHK" in a card's title; None when the title has none.
\* A card of a result page: its price text, the BHK count in its title, and
\* whether handling it raises inside the loop's try (an <a> without href).
Card(text, n, r) == [price_text |-> text, bhk |-> n, raises |-> r]

\* The cards a page is made of: no price and no BHK; a price of 0; two ways
\* of writing a price, both "2 BHK"; and a card whose handling raises.
Cards ==
    { Card(<<"K">>, None, FALSE),
      Card(<<"0">>, 2, FALSE),
      Card(<<"1", "k">>, 2, FALSE),
      Card(<<"R", "s", "2", ",", "0", "0", "0">>, 2, FALSE),
      Card(<<>>, None, TRUE) }

RECURSIVE SeqsUpTo(_, _)
SeqsUpTo(S, n) ==
    IF n = 0 THEN {<<>>}
    ELSE LET shorter == SeqsUpTo(S, n - 1)
         IN  shorter \cup {Append(q, x) : q \in {r \in shorter : Len(r) = n - 1}, x \in S}

Pages(n) == SeqsUpTo(Cards, n)

\* ---- the site scrapers (fetch_nobroker and its four siblings) ----
Min(a, b) == IF a <= b THEN a ELSE b

\* The dict a scraper appends for one card.
ItemOf(s, c) ==
    [site |-> SiteName(s), bhk |-> c.bhk, price |-> parse_price_int(c.price_text)]

\* The list a scraper returns for a fetched page: one item per card among the
\* first eight, a card whose handling raises being skipped (except: continue).
SiteItems(s, page) ==
    LET cards == SubSeq(page, 1, Min(CardCap, Len(page)))
        kept == SelectSeq(cards, LAMBDA c : ~c.raises)
    IN  [i \in 1..Len(kept) |-> ItemOf(s, kept[i])]

\* ---- the endpoint's state ----
VARIABLES
    pc,        \* "request", "rejected" (422), "gather", "done", "error" (500)
    society,   \* length of the society parameter, None when it is missing
    city,      \* length of the city parameter, None when it is missing
    status,    \* per site task: "created", "inflight", "ok", "failed", "raised"
    attempts,  \* per site: GET requests issued by fetch_html
    res,       \* per site: the list its scraper returned
    results    \* RentResponse.results

vars == <<pc, society, city, status, attempts, res, results>>

\* The society parameter: missing, or a string of up to MinLength characters.
SocietyInputs == {None} \cup (0..MinLength)
CityInputs == {None, 0, 1}

\* The spec's rule: society and city both present and non-empty.
ValidQueryBothNonEmpty(soc, cty) == soc # None /\ soc >= 1 /\ cty # None /\ cty >= 1

\* society: str = Query(..., min_length=2); city: Optional[str] = Query(None)
ValidQuery(soc, cty) == soc # None /\ soc >= MinLength

Finished == {"ok", "failed", "raised"}

\* asyncio.gather schedules the five tasks in list order; each runs to its
\* first suspension, inside client.get, before the next one starts.
CanStart(s) == status[s] = "created" /\ \A j \in Sites : j < s => status[j] # "created"

\* A fetch_html that retries a failed GET until three attempts are spent.
AfterFailureRetry(n) == IF n < 3 THEN "created" ELSE "failed"

\* fetch_html's except clause re-raises at once: a failed GET is final.
AfterFailure(n) == "failed"

\* A gather that stops waiting once some scraper has returned listings.
FinishedOrFound ==
    \/ \A s \in Sites : status[s] \in Finished
    \/ \E s \in Sites : status[s] = "ok" /\ res[s] # <<>>

\* A wait that resumes at the first task to finish.
AnyFinished == \E s \in Sites : status[s] \in Finished

\* await asyncio.gather(*tasks, ...) resumes when every task has finished.
AllFinished == \A s \in Sites : status[s] \in Finished

\* return_exceptions left at its default: gather re-raises a task's exception.
GatherRaisesTaskError == \E s \in Sites : status[s] = "raised"

\* return_exceptions=True: gather hands exceptions back as values.
GatherRaises == FALSE

RECURSIVE SumLen(_, _)
SumLen(rs, n) == IF n = 0 THEN 0 ELSE SumLen(rs, n - 1) + Len(rs[n])

TotalItems == SumLen(res, NumSites)

\* The loop over all_results: an Exception is skipped, a list is appended
\* item by item, in task order.
RECURSIVE Collected(_, _, _)
Collected(st, rs, n) ==
    IF n = 0 THEN <<>>
    ELSE Collected(st, rs, n - 1) \o (IF st[n] = "raised" THEN <<>> ELSE rs[n])

\* key=lambda x: x.get("price") or 10**12, as the pair (key div 10^6, key mod 10^6)
SortKey(x) ==
    IF x.price = None \/ x.price = 0 THEN <<1000000, 0>>
    ELSE <<x.price \div 1000000, x.price % 1000000>>

KeyLE(a, b) == a[1] < b[1] \/ (a[1] = b[1] /\ a[2] <= b[2])

\* x placed after every element of the sorted list s whose key is not greater.
InsertSorted(x, s) ==
    LET n == Cardinality({i \in 1..Len(s) : KeyLE(SortKey(s[i]), SortKey(x))})
    IN  SubSeq(s, 1, n) \o <<x>> \o SubSeq(s, n + 1, Len(s))

\* sorted(results, key=...): a stable sort.
RECURSIVE sorted(_)
sorted(s) ==
    IF s = <<>> THEN <<>>
    ELSE InsertSorted(s[Len(s)], sorted(SubSeq(s, 1, Len(s) - 1)))

\* A max-reduce per BHK label: of the listings sharing a label only one with
\* the highest rent is kept.
BestPerLabel ==
    LET all == sorted(Collected(status, res, NumSites))
    IN  SelectSeq(all, LAMBDA x :
            \A i \in 1..Len(all) :
                all[i].bhk = x.bhk => KeyLE(SortKey(all[i]), SortKey(x)))

\* Only listings with both a rent and a BHK label are kept.
OnlyComplete ==
    SelectSeq(sorted(Collected(status, res, NumSites)),
              LAMBDA x : x.price # None /\ x.bhk # None)

\* The list get_rent returns: every item of every site, sorted by price.
RentResults == sorted(Collected(status, res, NumSites))

Init ==
    /\ pc = "request"
    /\ society \in SocietyInputs
    /\ city \in CityInputs
    /\ status = [s \in Sites |-> "created"]
    /\ attempts = [s \in Sites |-> 0]
    /\ res = [s \in Sites |-> <<>>]
    /\ results = <<>>

\* FastAPI answers 422 before get_rent runs.
Reject ==
    /\ pc = "request"
    /\ ~ValidQuery(society, city)
    /\ pc' = "rejected"
    /\ UNCHANGED <<society, city, status, attempts, res, results>>

\* get_rent is entered and builds its tasks.
Accept ==
    /\ pc = "request"
    /\ ValidQuery(society, city)
    /\ pc' = "gather"
    /\ UNCHANGED <<society, city, status, attempts, res, results>>

\* fetch_html issues its GET.
StartFetch(s) ==
    /\ pc = "gather"
    /\ CanStart(s)
    /\ status' = [status EXCEPT ![s] = "inflight"]
    /\ attempts' = [attempts EXCEPT ![s] = @ + 1]
    /\ UNCHANGED <<pc, society, city, res, results>>

\* client.get raises; the scraper's except returns [].
TransportError(s) ==
    /\ pc = "gather"
    /\ status[s] = "inflight"
    /\ status' = [status EXCEPT ![s] = AfterFailure(attempts[s])]
    /\ res' = [res EXCEPT ![s] = <<>>]
    /\ UNCHANGED <<pc, society, city, attempts, results>>

\* raise_for_status raises on a 4xx/5xx answer; the scraper's except returns [].
BadStatus(s) ==
    /\ pc = "gather"
    /\ status[s] = "inflight"
    /\ status' = [status EXCEPT ![s] = AfterFailure(attempts[s])]
    /\ res' = [res EXCEPT ![s] = <<>>]
    /\ UNCHANGED <<pc, society, city, attempts, results>>

\* The GET succeeds and the scraper extracts the page's cards.
FetchOk(s) ==
    /\ pc = "gather"
    /\ status[s] = "inflight"
    /\ \E page \in Pages(MaxListings - TotalItems) :
          res' = [res EXCEPT ![s] = SiteItems(s, page)]
    /\ status' = [status EXCEPT ![s] = "ok"]
    /\ UNCHANGED <<pc, society, city, attempts, results>>

\* The GET succeeds but the scraper raises outside its try blocks (building
\* or selecting from the soup): gather records the exception for this task.
ScraperRaises(s) ==
    /\ pc = "gather"
    /\ status[s] = "inflight"
    /\ status' = [status EXCEPT ![s] = "raised"]
    /\ UNCHANGED <<pc, society, city, attempts, res, results>>

\* gather returns; the results are collected, sorted and returned.
Respond ==
    /\ pc = "gather"
    /\ AllFinished
    /\ IF GatherRaises
         THEN pc' = "error" /\ results' = results
         ELSE pc' = "done" /\ results' = RentResults
    /\ UNCHANGED <<society, city, status, attempts, res>>

Next ==
    \/ Reject
    \/ Accept
    \/ \E s \in Sites : StartFetch(s)
    \/ \E s \in Sites : TransportError(s)
    \/ \E s \in Sites : BadStatus(s)
    \/ \E s \in Sites : FetchOk(s)
    \/ \E s \in Sites : ScraperRaises(s)
    \/ Respond

Spec == Init /\ [][Next]_vars

\* Requests that carry a city; the city takes part in no guard of the endpoint.
FairInit == Init /\ city = 1

\* The event loop keeps running ready tasks and every GET ends (timeout=15.0),
\* so a step that can be taken is eventually taken.
FairSpec == FairInit /\ [][Next]_vars /\ WF_vars(Next)

\* ---- properties ----
Range(q) == {q[i] : i \in DOMAIN q}

\* How many entries of q equal x.
CountOf(q, x) == Cardinality({i \in DOMAIN q : q[i] = x})

RECURSIVE CountInSites(_, _)
CountInSites(x, n) ==
    IF n = 0 THEN 0 ELSE CountInSites(x, n - 1) + CountOf(res[n], x)

InFlight == {s \in Sites : status[s] = "inflight"}

\* C1: a request that passed validation never ends in an error; in the
\* response a site whose fetch failed or whose scraper raised has no entry,
\* every site that succeeded has all its listings there, and when no site
\* succeeded the result is the empty list.
C1_ResultDespiteFailures ==
    /\ pc # "error"
    /\ (society # None /\ society >= 2) => pc # "rejected"
    /\ pc = "done" =>
         /\ \A s \in Sites :
               status[s] \in {"failed", "raised"} =>
                   \A i \in DOMAIN results : results[i].site # SiteName(s)
         /\ \A s \in Sites :
               status[s] = "ok" =>
                   Len(SelectSeq(results, LAMBDA x : x.site = SiteName(s))) = Len(res[s])
         /\ (\A s \in Sites : status[s] # "ok") => results = <<>>

\* C1 witness: a response built while one fetch failed, one site answered
\* with no listings and another with listings.
C1_Witness ==
    /\ pc = "done"
    /\ \E s \in Sites : status[s] = "failed"
    /\ \E s \in Sites : status[s] = "ok" /\ res[s] = <<>>
    /\ \E s \in Sites : status[s] = "ok" /\ res[s] # <<>>
    /\ results # <<>>

C3_SequentialShortCircuit ==
    \A s \in Sites :
        status[s] # "created" =>
            \A j \in Sites : j < s => (status[j] \in {"ok", "failed", "raised"} /\ res[j] = <<>>)

\* C3 amended: the fetches are started in task order without waiting for one
\* another, and every site has been fetched exactly once when the response is
\* built, also when an earlier site returned listings.
C3_EverySiteFetched ==
    /\ \A s \in Sites :
          status[s] # "created" => \A j \in Sites : j < s => status[j] # "created"
    /\ pc = "done" => \A s \in Sites : attempts[s] = 1

\* C3 witness: the first and the last site both returned listings.
C3_Witness ==
    /\ pc = "done"
    /\ res[1] # <<>>
    /\ res[NumSites] # <<>>
    /\ attempts[NumSites] = 1

C6_ThreeAttempts == \A s \in Sites : status[s] = "failed" => attempts[s] = 3

\* C6 amended: a fetch makes exactly one GET attempt and never retries; when
\* the attempt fails the scraper returns the empty list, and the request
\* does not end in an error.
C6_SingleAttempt ==
    /\ \A s \in Sites :
          /\ attempts[s] = (IF status[s] = "created" THEN 0 ELSE 1)
          /\ status[s] = "failed" => res[s] = <<>>
    /\ pc # "error"

\* C6 witness: a response built after a fetch failed at its only attempt.
C6_Witness ==
    /\ pc = "done"
    /\ \E s \in Sites : status[s] = "failed" /\ attempts[s] = 1

\* C7 as stated: a request is rejected exactly when its society or its city
\* is missing or empty.
C7_RejectedIffEitherEmpty ==
    pc # "request" =>
        (pc = "rejected" <=> (society \in {None, 0} \/ city \in {None, 0}))

\* C7 amended: a request is rejected, before any fetch, exactly when its
\* society is missing or shorter than 2 characters; the city is optional;
\* no other condition gives the caller an error.
C7_RejectedIffSocietyShort ==
    /\ pc # "request" => (pc = "rejected" <=> (society = None \/ society < 2))
    /\ pc = "rejected" => \A s \in Sites : attempts[s] = 0
    /\ pc # "error"

\* C7 witness: a request without a city that was answered.
C7_Witness == pc = "done" /\ city = None /\ society = 2

\* C8 as stated: every entry of the response has a rent and a BHK label that
\* pass is_sane (rent below 500000, and at least 20000 from 2 BHK up, at
\* least 5000 for 1 BHK).
C8_OnlyCheckedEntries ==
    pc = "done" =>
        \A i \in DOMAIN results :
            /\ results[i].price # None
            /\ results[i].bhk # None
            /\ results[i].price < 500000
            /\ results[i].price >= (IF results[i].bhk >= 2 THEN 20000 ELSE 5000)

\* C8 amended: every entry of the response is a listing of a site whose fetch
\* succeeded, and no other check is applied: a listing without a rent or
\* without a BHK label, or with a rent is_sane would refuse, is returned too.
C8_OnlyFetchSuccessChecked ==
    pc = "done" =>
        /\ \A i \in DOMAIN results :
              \E s \in Sites :
                  /\ status[s] = "ok"
                  /\ results[i].site = SiteName(s)
                  /\ results[i] \in Range(res[s])
        /\ \A s \in Sites : status[s] = "ok" => Range(res[s]) \subseteq Range(results)

\* C8 witness: a response holding a listing with neither rent nor BHK label.
C8_Witness ==
    /\ pc = "done"
    /\ \E i \in DOMAIN results : results[i].price = None /\ results[i].bhk = None

\* C9: the response is built only when every task has finished, and under
\* fair scheduling an accepted request is eventually answered.
C9_AnsweredAfterAllTasks ==
    /\ [](pc = "done" => \A s \in Sites : status[s] \in {"ok", "failed", "raised"})
    /\ (pc = "gather" ~> pc = "done")

\* C9 witness: a response built after the first task succeeded and the last
\* one failed.
C9_Witness ==
    /\ pc = "done"
    /\ status[1] = "ok" /\ res[1] # <<>>
    /\ status[NumSites] = "failed"

\* C10 as stated: in the response the listings with a price come before
\* those without, in non-decreasing order of price, a price of 0 included.
C10_PricedFirstAscending ==
    pc = "done" =>
        \A i, j \in DOMAIN results :
            i < j =>
                /\ results[i].price = None => results[j].price = None
                /\ (results[i].price # None /\ results[j].price # None)
                      => results[i].price <= results[j].price

====
